---- MODULE Spec2Model ----
(***************************************************************************)
(* Model of src/app.py: the PII masking / unmasking turn pipeline of the   *)
(* Groq-SERP chatbot.  Strings are sequences of one-character strings, so  *)
(* that re.findall, str.replace and the f-string placeholder format are    *)
(* computed as Python computes them.  Dicts are sequences of [ph, orig]    *)
(* records in insertion order, as Python dicts iterate.                    *)
(***************************************************************************)
EXTENDS Integers, Sequences, FiniteSets, TLC

(* ------------------------------------------------------------------ *)
(* Bounds of the model                                                 *)
(* ------------------------------------------------------------------ *)
MaxTurns == 2

\* pieces of an answer text handed to unmask_pii
MaxPieces == 3

(* ------------------------------------------------------------------ *)
(* Characters and character classes of the three patterns              *)
(* ------------------------------------------------------------------ *)
Digits == {"0", "1", "2", "3", "4", "5", "6", "7", "8", "9"}

Letters == {"a", "b", "c", "d", "e", "f", "g", "h", "i", "j", "k", "l", "m",
            "n", "o", "p", "q", "r", "s", "t", "u", "v", "w", "x", "y", "z",
            "A", "B", "C", "D", "E", "F", "G", "H", "I", "J", "K", "L", "M",
            "N", "O", "P", "Q", "R", "S", "T", "U", "V", "W", "X", "Y", "Z"}

\* \w of the re module, which decides \b
WordChars == Digits \cup Letters \cup {"_"}

\* [a-zA-Z0-9_.+-]
EmailLocalChars == Digits \cup Letters \cup {"_", ".", "+", "-"}

\* [a-zA-Z0-9-]
EmailDomainChars == Digits \cup Letters \cup {"-"}

\* [a-zA-Z0-9-.]
EmailTldChars == Digits \cup Letters \cup {"-", "."}

\* [-.\s]  (the only whitespace character of the model is the space)
PhoneSepChars == {"-", ".", " "}

\* str.strip() strips whitespace
Whitespace == {" "}

(* ------------------------------------------------------------------ *)
(* Python string primitives                                            *)
(* ------------------------------------------------------------------ *)
\* s[i:] for a 1-based position i
Drop(s, i) == SubSeq(s, i, Len(s))

\* s.startswith(p, i-1) for a 1-based position i
StartsAt(s, p, i) ==
    /\ i + Len(p) - 1 <= Len(s)
    /\ \A k \in 1..Len(p) : s[i + k - 1] = p[k]

\* p in s
Contains(s, p) == \E i \in 1..(Len(s) + 1) : StartsAt(s, p, i)

RECURSIVE ReplaceFrom(_, _, _, _)
ReplaceFrom(s, old, new, i) ==
    IF i > Len(s) THEN <<>>
    ELSE IF StartsAt(s, old, i)
         THEN new \o ReplaceFrom(s, old, new, i + Len(old))
         ELSE <<s[i]>> \o ReplaceFrom(s, old, new, i + 1)

\* s.replace(old, new): every non-overlapping occurrence, left to right.
\* For an empty old, Python inserts new before every character and at the end.
Replace(s, old, new) ==
    IF old = <<>>
    THEN LET RECURSIVE Ins(_)
             Ins(i) == IF i > Len(s) THEN new
                       ELSE new \o <<s[i]>> \o Ins(i + 1)
         IN Ins(1)
    ELSE ReplaceFrom(s, old, new, 1)

RECURSIVE LStrip(_)
LStrip(s) == IF s # <<>> /\ Head(s) \in Whitespace THEN LStrip(Tail(s)) ELSE s

RECURSIVE RStrip(_)
RStrip(s) ==
    IF s # <<>> /\ s[Len(s)] \in Whitespace
    THEN RStrip(SubSeq(s, 1, Len(s) - 1))
    ELSE s

\* s.strip()
Strip(s) == RStrip(LStrip(s))

RECURSIVE DecimalDigits(_)
DecimalDigits(n) ==
    LET d == <<"0", "1", "2", "3", "4", "5", "6", "7", "8", "9">>
    IN IF n < 10 THEN <<d[n + 1]>>
       ELSE DecimalDigits(n \div 10) \o <<d[(n % 10) + 1]>>

(* ------------------------------------------------------------------ *)
(* The re module on the three patterns of mask_pii                     *)
(* ------------------------------------------------------------------ *)
\* end (exclusive) of the longest run of characters of class cls from i
RECURSIVE RunEnd(_, _, _)
RunEnd(s, cls, i) ==
    IF i <= Len(s) /\ s[i] \in cls THEN RunEnd(s, cls, i + 1) ELSE i

IsWordAt(s, i) == i >= 1 /\ i <= Len(s) /\ s[i] \in WordChars

\* \b between position i-1 and i
WordBoundary(s, i) == IsWordAt(s, i - 1) # IsWordAt(s, i)

\* exactly n digits from i
DigitsAt(s, i, n) ==
    /\ i + n - 1 <= Len(s)
    /\ \A k \in 0..(n - 1) : s[i + k] \in Digits

\* [-.\s]?  is greedy and what follows it is a digit, so it takes a
\* separator whenever there is one
SkipSep(s, i) == IF i <= Len(s) /\ s[i] \in PhoneSepChars THEN i + 1 ELSE i

\* Each XxxMatchEnd is the exclusive end of the match starting at i, or 0.
\* [a-zA-Z0-9_.+-]+@[a-zA-Z0-9-]+\.[a-zA-Z0-9-.]+ : every class is followed
\* by a character outside it, so each greedy run is maximal.
EmailMatchEnd(s, i) ==
    LET a == RunEnd(s, EmailLocalChars, i)
        b == RunEnd(s, EmailDomainChars, a + 1)
        c == RunEnd(s, EmailTldChars, b + 1)
    IN IF /\ a > i
          /\ a <= Len(s) /\ s[a] = "@"
          /\ b > a + 1
          /\ b <= Len(s) /\ s[b] = "."
          /\ c > b + 1
       THEN c ELSE 0

\* \b\d{3}[-.\s]?\d{3}[-.\s]?\d{4}\b
PhoneMatchEnd(s, i) ==
    LET p1 == SkipSep(s, i + 3)
        p2 == SkipSep(s, p1 + 3)
    IN IF /\ WordBoundary(s, i)
          /\ DigitsAt(s, i, 3)
          /\ DigitsAt(s, p1, 3)
          /\ DigitsAt(s, p2, 4)
          /\ WordBoundary(s, p2 + 4)
       THEN p2 + 4 ELSE 0

\* \b\d{4,}\b : a shorter run would end between two digits, where \b fails
IdMatchEnd(s, i) ==
    LET e == RunEnd(s, Digits, i)
    IN IF WordBoundary(s, i) /\ e - i >= 4 /\ WordBoundary(s, e)
       THEN e ELSE 0

MatchEnd(kind, s, i) ==
    CASE kind = "EMAIL" -> EmailMatchEnd(s, i)
      [] kind = "PHONE" -> PhoneMatchEnd(s, i)
      [] kind = "ID"    -> IdMatchEnd(s, i)

\* re.findall(pattern, s): the non-overlapping matches, scanning left to right
RECURSIVE FindAllFrom(_, _, _)
FindAllFrom(kind, s, i) ==
    IF i > Len(s) THEN <<>>
    ELSE LET e == MatchEnd(kind, s, i)
         IN IF e = 0 THEN FindAllFrom(kind, s, i + 1)
            ELSE <<SubSeq(s, i, e - 1)>> \o FindAllFrom(kind, s, e)

FindAll(kind, s) == FindAllFrom(kind, s, 1)

(* ------------------------------------------------------------------ *)
(* Python dicts: sequences of [ph, orig] items in insertion order      *)
(* ------------------------------------------------------------------ *)
DictKeys(d) == {d[i].ph : i \in 1..Len(d)}

\* k in d
DictHas(d, k) == \E i \in 1..Len(d) : d[i].ph = k

\* d[k], for a key that is present
DictGet(d, k) == d[CHOOSE i \in 1..Len(d) : d[i].ph = k].orig

\* d[k] = v : an existing key keeps its position and takes the new value
DictSet(d, k, v) ==
    IF DictHas(d, k)
    THEN [i \in 1..Len(d) |-> IF d[i].ph = k THEN [ph |-> k, orig |-> v] ELSE d[i]]
    ELSE Append(d, [ph |-> k, orig |-> v])

\* next((k for k,v in mapping.items() if v==match), None)
FirstKeyOf(d, v) ==
    IF \E i \in 1..Len(d) : d[i].orig = v
    THEN LET i == CHOOSE j \in 1..Len(d) :
                    /\ d[j].orig = v
                    /\ \A k \in 1..(j - 1) : d[k].orig # v
         IN [found |-> TRUE, key |-> d[i].ph]
    ELSE [found |-> FALSE, key |-> <<>>]

(* ------------------------------------------------------------------ *)
(* Placeholder allocator                                               *)
(* ------------------------------------------------------------------ *)
Kinds == {"NAME", "EMAIL", "PHONE", "ID"}

KindChars(kind) ==
    CASE kind = "NAME"  -> <<"N", "A", "M", "E">>
      [] kind = "EMAIL" -> <<"E", "M", "A", "I", "L">>
      [] kind = "PHONE" -> <<"P", "H", "O", "N", "E">>
      [] kind = "ID"    -> <<"I", "D">>

\* f"<{kind}_{n}>"
FormatPlaceholder(kind, n) ==
    <<"<">> \o KindChars(kind) \o <<"_">> \o DecimalDigits(n) \o <<">">>

\* a counter increment that skips a number
CounterSkips(counter, kind) == [counter EXCEPT ![kind] = @ + 2]

\* a counter increment that is lost
CounterStuck(counter, kind) == counter

\* st.session_state.placeholder_counter[kind] += 1
CounterIncrement(counter, kind) == [counter EXCEPT ![kind] = @ + 1]

\* _next_placeholder(kind): the counters after the call and the token returned
next_placeholder(counter, kind) ==
    LET c == CounterIncrement(counter, kind)
    IN [counter |-> c, ph |-> FormatPlaceholder(kind, c[kind]), n |-> c[kind]]

(* ------------------------------------------------------------------ *)
(* mask_pii, steps 1-3: the regex passes                               *)
(* ------------------------------------------------------------------ *)
\* One iteration of a "for match in re.findall(...)" loop.  st carries the
\* session dict, the counters and the working text, and records what the
\* iteration did: issued (numbers handed out by _next_placeholder),
\* assigned (the mapping[ph] = match stores) and used (literal, placeholder).
MaskMatch(st, kind, match) ==
    LET hit   == FirstKeyOf(st.mapping, match)
        \* "x or y": an empty key is falsy
        reuse == hit.found /\ hit.key # <<>>
        np    == next_placeholder(st.counter, kind)
        ph    == IF reuse THEN hit.key ELSE np.ph
    IN [mapping  |-> DictSet(st.mapping, ph, match),
        counter  |-> IF reuse THEN st.counter ELSE np.counter,
        masked   |-> Replace(st.masked, match, ph),
        issued   |-> IF reuse THEN st.issued
                     ELSE Append(st.issued, [kind |-> kind, n |-> np.n]),
        assigned |-> Append(st.assigned, [ph |-> ph, orig |-> match]),
        used     |-> Append(st.used, [lit |-> match, ph |-> ph, kind |-> kind,
                                      fresh |-> ~reuse])]

RECURSIVE MaskMatches(_, _, _)
MaskMatches(st, kind, matches) ==
    IF matches = <<>> THEN st
    ELSE MaskMatches(MaskMatch(st, kind, Head(matches)), kind, Tail(matches))

\* lines 87-106: every pattern is searched in the original text, and the
\* replacements are made in the working text
RegexPasses(text, mapping, counter) ==
    LET s0 == [mapping |-> mapping, counter |-> counter, masked |-> text,
               issued |-> <<>>, assigned |-> <<>>, used |-> <<>>]
        s1 == MaskMatches(s0, "EMAIL", FindAll("EMAIL", text))
        s2 == MaskMatches(s1, "PHONE", FindAll("PHONE", text))
    IN MaskMatches(s2, "ID", FindAll("ID", text))

\* a prompt built from the user's text instead of the working text
PromptUnmasked(text, masked) == text

\* lines 109-114: the text embedded in the classifier prompt is the
\* working text after the regex passes
PromptText(text, masked) == masked

(* ------------------------------------------------------------------ *)
(* mask_pii, step 4: the classifier response                           *)
(* ------------------------------------------------------------------ *)
\* A raw response of the provider is described by its shape (fmt) and by
\* the object it spells out:
\*   "json"     the whole text is a JSON object
\*   "wrapped"  commentary around one {...} block that is a JSON object
\*   "badbrace" a {...} block that is not JSON (unquoted keys)
\*   "text"     no {...} block at all
NoObject == [hasMaskedText |-> FALSE, hasMapping |-> FALSE,
             masked_text |-> <<>>, mapping |-> <<>>]

RawReply(fmt, obj) == [fmt |-> fmt, obj |-> obj]

\* line 54: "Error: missing GROQ_API_KEY."
CredentialError == RawReply("text", NoObject)

\* a parser that also accepts a {...} block with unquoted keys
ParseLenient(rawv) ==
    IF rawv.fmt = "text"
    THEN [status |-> "stop", data |-> NoObject]
    ELSE [status |-> "ok", data |-> rawv.obj]

\* lines 116-125: json.loads(raw); on JSONDecodeError the first {...} block
\* is searched: none -> st.stop(); otherwise json.loads of the block, whose
\* JSONDecodeError is not caught here
ParseClassifier(rawv) ==
    CASE rawv.fmt = "json"     -> [status |-> "ok", data |-> rawv.obj]
      [] rawv.fmt = "wrapped"  -> [status |-> "ok", data |-> rawv.obj]
      [] rawv.fmt = "text"     -> [status |-> "stop", data |-> NoObject]
      [] rawv.fmt = "badbrace" -> [status |-> "JSONDecodeError", data |-> NoObject]

\* a merge in which the classifier's value replaces the session's
RECURSIVE MergeOverwrite(_, _)
MergeOverwrite(mapping, items) ==
    IF items = <<>> THEN mapping
    ELSE MergeOverwrite(DictSet(mapping, Head(items).ph, Head(items).orig),
                        Tail(items))

\* lines 127-129: for ph, orig in data["mapping"].items():
\*                    if ph not in mapping: mapping[ph] = orig
RECURSIVE MergeMapping(_, _)
MergeMapping(mapping, items) ==
    IF items = <<>> THEN mapping
    ELSE LET it == Head(items)
         IN MergeMapping(IF DictHas(mapping, it.ph) THEN mapping
                         ELSE DictSet(mapping, it.ph, it.orig),
                         Tail(items))

\* a turn mapping that is the whole session mapping
TurnMapWhole(mapping, items) == mapping

\* line 132: {ph: mapping[ph] for ph in data["mapping"]}
TurnMapOf(mapping, items) ==
    [i \in 1..Len(items) |-> [ph |-> items[i].ph, orig |-> DictGet(mapping, items[i].ph)]]

\* lines 127-133 on the parsed object: data["mapping"] is read first, the
\* merge is done in the session dict itself, and data["masked_text"] is read
\* after the merge
MergeClassifier(data, mapping) ==
    IF ~data.hasMapping
    THEN [status |-> "KeyError", mapping |-> mapping,
          masked |-> <<>>, turn_map |-> <<>>, merged |-> <<>>]
    ELSE LET m == MergeMapping(mapping, data.mapping)
         IN IF ~data.hasMaskedText
            THEN [status |-> "KeyError", mapping |-> m,
                  masked |-> <<>>, turn_map |-> <<>>, merged |-> data.mapping]
            ELSE [status |-> "ok", mapping |-> m,
                  masked |-> data.masked_text,
                  turn_map |-> TurnMapOf(m, data.mapping),
                  merged |-> data.mapping]

\* lines 116-133 as a whole
FinishMask(rawv, mapping) ==
    LET p == ParseClassifier(rawv)
    IN IF p.status = "ok" THEN MergeClassifier(p.data, mapping)
       ELSE [status |-> p.status, mapping |-> mapping,
             masked |-> <<>>, turn_map |-> <<>>, merged |-> <<>>]

\* a loop that returns after its first entry
UnmaskFirstOnly(text, turn_map) ==
    IF turn_map = <<>> THEN text
    ELSE Replace(text, Head(turn_map).ph, Head(turn_map).orig)

\* lines 135-138
RECURSIVE unmask_pii(_, _)
unmask_pii(text, turn_map) ==
    IF turn_map = <<>> THEN text
    ELSE unmask_pii(Replace(text, Head(turn_map).ph, Head(turn_map).orig),
                    Tail(turn_map))

(* ------------------------------------------------------------------ *)
(* call_llm: the retry loop                                            *)
(* ------------------------------------------------------------------ *)
\* a credential test that never fires
ClientAssumed(client) == FALSE

\* line 53: if not groq_client
ClientMissing(client) == ~client

\* a loop that gives up after the second rate-limit failure
RetryOnce(attempt) == attempt < 1

\* line 65: if attempt < 2
RetryAllowed(attempt) == attempt < 2

\* line 67: backoff *= 2
BackoffNext(b) == b * 2

(* ------------------------------------------------------------------ *)
(* Inputs: what the user types and what the provider answers           *)
(* ------------------------------------------------------------------ *)
TxtChat == <<"h", "i", " ", "b", "o", "b">>

TxtEmail == <<"a", "@", "b", ".", "c">>

TxtId == <<"1", "2", "3", "4", "5">>

TxtIds == <<"1", "2", "3", "4", " ", "1", "2", "3", "4", "5">>

\* a phone number and a reference number, typed with spaces around them
TxtPadded == <<" ", "5", "5", "5", "-", "1", "2", "3", "-", "4", "5", "6", "7", " ",
               "9", "8", "7", "6", "5", "4", " ">>

TxtBlank == <<" ">>

UserInputs == {TxtChat, TxtEmail, TxtId, TxtIds, TxtPadded, TxtBlank}

\* placeholders and values that the classifier may report
LLMKeys == {FormatPlaceholder("NAME", 1), FormatPlaceholder("ID", 1)}

LLMValues == {<<"b", "o", "b">>, TxtId}

LLMMappings ==
    {<<>>} \cup {<<[ph |-> k, orig |-> v]>> : k \in LLMKeys, v \in LLMValues}

\* {"<NAME_1>": "bob"}
NameBob == <<[ph |-> FormatPlaceholder("NAME", 1), orig |-> <<"b", "o", "b">>]>>

\* the text a classifier that follows its instruction sends back: each
\* reported value replaced by its placeholder
RECURSIVE ApplyMapping(_, _)
ApplyMapping(text, items) ==
    IF items = <<>> THEN text
    ELSE ApplyMapping(Replace(text, Head(items).orig, Head(items).ph), Tail(items))

\* a reply whose masked_text is not the text that was sent
Rewritten == <<"o", "k">>

Obj(hasText, hasMap, mt, cm) ==
    [hasMaskedText |-> hasText, hasMapping |-> hasMap,
     masked_text |-> IF hasText THEN mt ELSE <<>>,
     mapping |-> IF hasMap THEN cm ELSE <<>>]

\* resp.choices[0].message.content for the classifier prompt (line 63)
ClassifierReplies(prompt) ==
    {RawReply("text", NoObject), RawReply("badbrace", Obj(TRUE, TRUE, prompt, <<>>))}
    \cup {RawReply("json", Obj(TRUE, TRUE, ApplyMapping(prompt, cm), cm)) :
            cm \in LLMMappings}
    \cup {RawReply("wrapped", Obj(TRUE, TRUE, ApplyMapping(prompt, NameBob), NameBob))}
    \cup {RawReply("json", Obj(TRUE, TRUE, Rewritten, <<>>))}
    \cup {RawReply("json", Obj(FALSE, TRUE, <<>>, NameBob))}
    \cup {RawReply("json", Obj(TRUE, FALSE, prompt, <<>>))}

\* resp.choices[0].message.content for the answer prompt: the model repeats
\* the question, or says something without placeholders
AnswerReplies(question) == {question, Rewritten}

(* ------------------------------------------------------------------ *)
(* State                                                               *)
(* ------------------------------------------------------------------ *)
VARIABLES
    global_mapping,       \* st.session_state.global_mapping
    placeholder_counter,  \* st.session_state.placeholder_counter
    last_turn,            \* st.session_state.last_turn
    user_input,           \* st.session_state.user_input
    groq_client,          \* TRUE iff GROQ_API_KEY is configured
    pc,                   \* where on_enter stands: idle, or the call it awaits
    text,                 \* on_enter: user_input.strip()
    masked,               \* mask_pii: the working text after the regex passes
    raw,                  \* mask_pii: the classifier response
    masked_q,             \* on_enter: masked query returned by mask_pii
    turn_map,             \* on_enter: turn mapping returned by mask_pii
    masked_ans,           \* on_enter: the masked answer
    attempt,              \* call_llm: loop index
    backoff,              \* call_llm: next sleep
    outcome,              \* how the last turn ended
    mask_state,           \* mask_pii of this turn: none, running, returned, failed
    calls,                \* this turn's external calls and sleeps, in order
    used,                 \* this turn's (literal, placeholder) uses
    pre,                  \* session mapping and counters when the turn began
    history,              \* every (placeholder, value) the session dict held
    issued,               \* every number _next_placeholder returned
    turns,                \* turns started
    final,                \* on_enter: unmask_pii(masked_ans, turn_map)
    threads               \* script threads inside mask_pii, when turns overlap

vars == <<global_mapping, placeholder_counter, last_turn, user_input,
          groq_client, pc, text, masked, raw, masked_q, turn_map, masked_ans,
          attempt, backoff, outcome, mask_state, calls, used, pre, history,
          issued, turns, final, threads>>

None == [none |-> TRUE]

NoRaw == RawReply("none", NoObject)

Items(d) == {<<d[i].ph, d[i].orig>> : i \in 1..Len(d)}

GroqCall(purpose, t) == [fn |-> "groq", purpose |-> purpose, secs |-> 0, text |-> t]

SleepCall(secs) == [fn |-> "sleep", purpose |-> "", secs |-> secs, text |-> <<>>]

SerpCall(q) == [fn |-> "serp", purpose |-> "", secs |-> 0, text |-> q]

\* lines 74-77 and 143-144; the key is configured or not for the whole session
Init ==
    /\ global_mapping = <<>>
    /\ placeholder_counter = [k \in Kinds |-> 0]
    /\ last_turn = None
    /\ user_input = <<>>
    /\ groq_client \in BOOLEAN
    /\ pc = "idle"
    /\ text = <<>>
    /\ masked = <<>>
    /\ raw = NoRaw
    /\ masked_q = <<>>
    /\ turn_map = <<>>
    /\ masked_ans = <<>>
    /\ attempt = 0
    /\ backoff = 1
    /\ outcome = "none"
    /\ mask_state = "none"
    /\ calls = <<>>
    /\ used = <<>>
    /\ pre = [mapping |-> <<>>, counter |-> [k \in Kinds |-> 0]]
    /\ history = {}
    /\ issued = <<>>
    /\ turns = 0
    /\ final = <<>>
    /\ threads = <<>>

(* ------------------------------------------------------------------ *)
(* on_enter                                                            *)
(* ------------------------------------------------------------------ *)
\* the turn is over: "finally: st.session_state.user_input = ''"
EndTurn(how) ==
    /\ pc' = "idle"
    /\ outcome' = how
    /\ user_input' = <<>>

\* lines 116-133 and, when mask_pii returns, line 156: the search request
MaskContinues(rawv, mappingNow, callsNow, historyNow) ==
    LET f == FinishMask(rawv, mappingNow)
    IN /\ raw' = rawv
       /\ global_mapping' = f.mapping
       /\ history' = historyNow \cup Items(f.mapping)
       /\ IF f.status = "ok"
          THEN /\ masked_q' = f.masked
               /\ turn_map' = f.turn_map
               /\ mask_state' = "returned"
               /\ calls' = Append(callsNow, SerpCall(f.masked))
               /\ pc' = "search"
               /\ UNCHANGED <<outcome, user_input>>
          ELSE /\ UNCHANGED <<masked_q, turn_map>>
               /\ mask_state' = "failed"
               /\ calls' = callsNow
               /\ EndTurn(f.status)

\* lines 146-153, 86-115: the turn starts, the regex passes run and the
\* classifier prompt is sent (or, without a client, call_llm returns at once)
on_enter(input) ==
    /\ pc = "idle"
    /\ turns < MaxTurns
    /\ turns' = turns + 1
    /\ text' = Strip(input)
    /\ pre' = [mapping |-> global_mapping, counter |-> placeholder_counter]
    /\ masked_q' = <<>>
    /\ turn_map' = <<>>
    /\ masked_ans' = <<>>
    /\ attempt' = 0
    /\ backoff' = 1
    /\ UNCHANGED <<last_turn, final, threads, groq_client>>
    /\ IF Strip(input) = <<>>
       THEN \* line 149: return, before the try block
            /\ pc' = "idle"
            /\ outcome' = "returned"
            /\ user_input' = input
            /\ mask_state' = "none"
            /\ masked' = <<>>
            /\ raw' = NoRaw
            /\ calls' = <<>>
            /\ used' = <<>>
            /\ UNCHANGED <<global_mapping, placeholder_counter, history, issued>>
       ELSE LET rp     == RegexPasses(Strip(input), global_mapping, placeholder_counter)
                prompt == PromptText(Strip(input), rp.masked)
                hist   == history \cup Items(rp.assigned)
            IN /\ placeholder_counter' = rp.counter
               /\ issued' = issued \o rp.issued
               /\ used' = rp.used
               /\ masked' = rp.masked
               /\ IF ~ClientMissing(groq_client)
                  THEN /\ global_mapping' = rp.mapping
                       /\ history' = hist
                       /\ calls' = <<GroqCall("mask", prompt)>>
                       /\ pc' = "mask_llm"
                       /\ mask_state' = "running"
                       /\ outcome' = "none"
                       /\ user_input' = input
                       /\ raw' = NoRaw
                  ELSE MaskContinues(CredentialError, rp.mapping, <<>>, hist)

\* a rate-limit failure after which the turn's entries are taken back
call_llm_RateLimitRollback ==
    /\ pc \in {"mask_llm", "answer_llm"}
    /\ IF RetryAllowed(attempt)
       THEN /\ calls' = calls \o <<SleepCall(backoff), calls[Len(calls)]>>
            /\ backoff' = BackoffNext(backoff)
            /\ attempt' = attempt + 1
            /\ UNCHANGED <<pc, outcome, user_input, mask_state, global_mapping>>
       ELSE /\ EndTurn("RateLimitError")
            /\ mask_state' = IF pc = "mask_llm" THEN "failed" ELSE mask_state
            /\ global_mapping' = pre.mapping
            /\ UNCHANGED <<calls, backoff, attempt>>
    /\ UNCHANGED <<placeholder_counter, last_turn, final, threads,
                   groq_client,
                   text, masked, raw, masked_q, turn_map, masked_ans, used, pre,
                   history, issued, turns>>

\* lines 64-69: the provider answers with a rate-limit failure
call_llm_RateLimitError ==
    /\ pc \in {"mask_llm", "answer_llm"}
    /\ IF RetryAllowed(attempt)
       THEN /\ calls' = calls \o <<SleepCall(backoff), calls[Len(calls)]>>
            /\ backoff' = BackoffNext(backoff)
            /\ attempt' = attempt + 1
            /\ UNCHANGED <<pc, outcome, user_input, mask_state>>
       ELSE \* raise; caught at line 193
            /\ EndTurn("RateLimitError")
            /\ mask_state' = IF pc = "mask_llm" THEN "failed" ELSE mask_state
            /\ UNCHANGED <<calls, backoff, attempt>>
    /\ UNCHANGED <<global_mapping, placeholder_counter, last_turn, final, threads,
                   groq_client,
                   text, masked, raw, masked_q, turn_map, masked_ans, used, pre,
                   history, issued, turns>>

\* lines 58-62: any other failure of the provider leaves call_llm at once
\* and is caught at line 195
call_llm_OtherError ==
    /\ pc \in {"mask_llm", "answer_llm"}
    /\ EndTurn("APIError")
    /\ mask_state' = IF pc = "mask_llm" THEN "failed" ELSE mask_state
    /\ UNCHANGED <<global_mapping, placeholder_counter, last_turn, final, threads,
                   groq_client,
                   text, masked, raw, masked_q, turn_map, masked_ans, attempt,
                   backoff, calls, used, pre, history, issued, turns>>

\* line 63 for the classifier prompt, then lines 116-133 and line 156
mask_pii_returns(rawv) ==
    /\ pc = "mask_llm"
    /\ MaskContinues(rawv, global_mapping, calls, history)
    /\ UNCHANGED <<placeholder_counter, last_turn, final, threads,
                   groq_client, text, masked,
                   masked_ans, attempt, backoff, used, pre, issued, turns>>

\* lines 48-50 succeed, then lines 159-164: the answer prompt is sent
serp_search_returns ==
    /\ pc = "search"
    /\ pc' = "answer_llm"
    /\ attempt' = 0
    /\ backoff' = 1
    /\ calls' = Append(calls, GroqCall("answer", masked_q))
    /\ UNCHANGED <<global_mapping, placeholder_counter, last_turn, final, threads,
                   user_input,
                   groq_client, text, masked, raw, masked_q, turn_map,
                   masked_ans, outcome, mask_state, used, pre, history, issued,
                   turns>>

\* a search that is tried again after a failure
serp_search_retried ==
    /\ pc = "search"
    /\ Len(calls) < 8
    /\ calls' = Append(calls, SerpCall(masked_q))
    /\ UNCHANGED <<global_mapping, placeholder_counter, last_turn, final, threads,
                   groq_client, user_input, pc, outcome,
                   text, masked, raw, masked_q, turn_map, masked_ans, attempt,
                   backoff, mask_state, used, pre, history, issued, turns>>

\* line 49: resp.raise_for_status(), caught at line 195
serp_search_fails ==
    /\ pc = "search"
    /\ EndTurn("HTTPError")
    /\ UNCHANGED <<global_mapping, placeholder_counter, last_turn, final, threads,
                   groq_client,
                   text, masked, raw, masked_q, turn_map, masked_ans, attempt,
                   backoff, mask_state, calls, used, pre, history, issued, turns>>

\* line 63 for the answer prompt, then line 167: pd is not imported
\* (lines 1-12), so the evaluation step raises NameError, caught at line 195;
\* lines 179-191 are not reached
answer_returns(ans) ==
    /\ pc = "answer_llm"
    /\ masked_ans' = ans
    /\ EndTurn("NameError")
    /\ UNCHANGED <<global_mapping, placeholder_counter, last_turn, final, threads,
                   groq_client,
                   text, masked, raw, masked_q, turn_map, attempt, backoff,
                   mask_state, calls, used, pre, history, issued, turns>>

Next ==
    \/ \E input \in UserInputs : on_enter(input)
    \/ call_llm_RateLimitError
    \/ call_llm_OtherError
    \/ \E rawv \in ClassifierReplies(PromptText(text, masked)) : mask_pii_returns(rawv)
    \/ serp_search_returns
    \/ serp_search_fails
    \/ \E ans \in AnswerReplies(masked_q) : answer_returns(ans)

Spec == Init /\ [][Next]_vars

(* ------------------------------------------------------------------ *)
(* unmask_pii on its own: line 179 for any masked answer and mapping   *)
(* ------------------------------------------------------------------ *)
\* what an answer text is made of: whole placeholders, and fragments that
\* look like the two ends of one
AnswerPieces ==
    {FormatPlaceholder("ID", 1), FormatPlaceholder("NAME", 1),
     <<"<", "N", "A">>, <<"_", "1", ">">>, <<"h", "i">>}

RECURSIVE Concat(_)
Concat(ps) == IF ps = <<>> THEN <<>> ELSE Head(ps) \o Concat(Tail(ps))

AnswerTexts ==
    {Concat(ps) : ps \in UNION {[1..n -> AnswerPieces] : n \in 0..MaxPieces}}

UnmaskKeys == {FormatPlaceholder("ID", 1), FormatPlaceholder("NAME", 1)}

UnmaskValues == {<<"b", "o", "b">>, <<"M", "E">>}

\* turn mappings: dicts with distinct keys, in every insertion order
UnmaskMaps ==
    {m \in UNION {[1..n -> [ph : UnmaskKeys, orig : UnmaskValues]] : n \in 0..2} :
        \A i, j \in 1..Len(m) : i # j => m[i].ph # m[j].ph}

InitUnmask ==
    /\ global_mapping = <<>>
    /\ placeholder_counter = [k \in Kinds |-> 0]
    /\ last_turn = None
    /\ user_input = <<>>
    /\ groq_client = TRUE
    /\ pc = "unmask"
    /\ text = <<>>
    /\ masked = <<>>
    /\ raw = NoRaw
    /\ masked_q = <<>>
    /\ turn_map \in UnmaskMaps
    /\ masked_ans \in AnswerTexts
    /\ attempt = 0
    /\ backoff = 1
    /\ outcome = "none"
    /\ mask_state = "returned"
    /\ calls = <<>>
    /\ used = <<>>
    /\ pre = [mapping |-> <<>>, counter |-> [k \in Kinds |-> 0]]
    /\ history = {}
    /\ issued = <<>>
    /\ turns = 1
    /\ final = <<>>
    /\ threads = <<>>

\* line 179: final = unmask_pii(masked_ans, turn_map)
unmask_call ==
    /\ pc = "unmask"
    /\ final' = unmask_pii(masked_ans, turn_map)
    /\ pc' = "unmasked"
    /\ UNCHANGED <<global_mapping, placeholder_counter, last_turn, user_input,
                   groq_client, text, masked, raw, masked_q, turn_map,
                   masked_ans, attempt, backoff, outcome, mask_state, calls,
                   used, pre, history, issued, turns, threads>>

NextUnmask == unmask_call

UnmaskSpec == InitUnmask /\ [][NextUnmask]_vars

(* ------------------------------------------------------------------ *)
(* mask_pii, steps 1-3, run by two script threads of one session       *)
(* ------------------------------------------------------------------ *)
\* the two turns whose regex passes overlap
ThreadIds == {1, 2}

\* the texts the overlapping turns submit
ConcInputs == {TxtId, TxtIds, TxtEmail}

\* the iterations of the three "for match in re.findall(...)" loops of one
\* text, in the order the loops run
RECURSIVE Tagged(_, _)
Tagged(kind, matches) ==
    IF matches = <<>> THEN <<>>
    ELSE <<[kind |-> kind, match |-> Head(matches)]>> \o Tagged(kind, Tail(matches))

LoopIterations(txt) ==
    Tagged("EMAIL", FindAll("EMAIL", txt))
        \o Tagged("PHONE", FindAll("PHONE", txt))
        \o Tagged("ID", FindAll("ID", txt))

\* both threads stand at the entry of mask_pii; the session is new
InitConc ==
    /\ global_mapping = <<>>
    /\ placeholder_counter = [k \in Kinds |-> 0]
    /\ last_turn = None
    /\ user_input = <<>>
    /\ groq_client = TRUE
    /\ pc = "mask_pii"
    /\ text = <<>>
    /\ masked = <<>>
    /\ raw = NoRaw
    /\ masked_q = <<>>
    /\ turn_map = <<>>
    /\ masked_ans = <<>>
    /\ attempt = 0
    /\ backoff = 1
    /\ outcome = "none"
    /\ mask_state = "running"
    /\ calls = <<>>
    /\ used = <<>>
    /\ pre = [mapping |-> <<>>, counter |-> [k \in Kinds |-> 0]]
    /\ history = {}
    /\ issued = <<>>
    /\ turns = 2
    /\ final = <<>>
    /\ threads \in [ThreadIds -> {[at |-> "enter", text |-> t, masked |-> <<>>,
                                   work |-> <<>>, tmp |-> 0, ph |-> <<>>]
                                     : t \in ConcInputs}]

\* what the steps of a thread leave alone
ConcUnchanged ==
    UNCHANGED <<last_turn, user_input, groq_client, pc, text, masked, raw,
                masked_q, turn_map, masked_ans, attempt, backoff, outcome,
                mask_state, calls, used, pre, turns, final>>

\* where a thread goes after an iteration: the next match, or the prompt
AfterIteration(work) == IF work = <<>> THEN "prompt" ELSE "lookup"

\* lines 87-88: mapping = st.session_state.global_mapping; masked = text
mask_pii_enter(t) ==
    /\ threads[t].at = "enter"
    /\ LET work == LoopIterations(threads[t].text)
       IN threads' = [threads EXCEPT ![t].masked = threads[t].text,
                                     ![t].work = work,
                                     ![t].at = AfterIteration(work)]
    /\ UNCHANGED <<global_mapping, placeholder_counter, history, issued>>
    /\ ConcUnchanged

\* lines 92/98/104: next((k for k,v in mapping.items() if v==match), None)
mask_pii_lookup(t) ==
    /\ threads[t].at = "lookup"
    /\ LET hit   == FirstKeyOf(global_mapping, Head(threads[t].work).match)
           reuse == hit.found /\ hit.key # <<>>
       IN threads' = IF reuse
                     THEN [threads EXCEPT ![t].ph = hit.key, ![t].at = "store"]
                     ELSE [threads EXCEPT ![t].at = "read"]
    /\ UNCHANGED <<global_mapping, placeholder_counter, history, issued>>
    /\ ConcUnchanged

\* line 80, the load of "placeholder_counter[kind] += 1"
next_placeholder_read(t) ==
    /\ threads[t].at = "read"
    /\ threads' = [threads EXCEPT
                      ![t].tmp = placeholder_counter[Head(threads[t].work).kind],
                      ![t].at = "write"]
    /\ UNCHANGED <<global_mapping, placeholder_counter, history, issued>>
    /\ ConcUnchanged

\* line 80, the store of "placeholder_counter[kind] += 1": the value loaded
\* before, incremented
next_placeholder_write(t) ==
    /\ threads[t].at = "write"
    /\ LET kind == Head(threads[t].work).kind
       IN placeholder_counter' =
              CounterIncrement([placeholder_counter EXCEPT ![kind] = threads[t].tmp],
                               kind)
    /\ threads' = [threads EXCEPT ![t].at = "format"]
    /\ UNCHANGED <<global_mapping, history, issued>>
    /\ ConcUnchanged

\* line 81: the token is formatted from the counter as it is read now
next_placeholder_format(t) ==
    /\ threads[t].at = "format"
    /\ LET kind == Head(threads[t].work).kind
       IN /\ threads' = [threads EXCEPT
                            ![t].ph = FormatPlaceholder(kind, placeholder_counter[kind]),
                            ![t].at = "store"]
          /\ issued' = Append(issued, [kind |-> kind, n |-> placeholder_counter[kind]])
    /\ UNCHANGED <<global_mapping, placeholder_counter, history>>
    /\ ConcUnchanged

\* lines 93-94/99-100/105-106: mapping[ph] = match; masked.replace(match, ph)
mask_pii_store(t) ==
    /\ threads[t].at = "store"
    /\ LET match == Head(threads[t].work).match
           ph    == threads[t].ph
           rest  == Tail(threads[t].work)
       IN /\ global_mapping' = DictSet(global_mapping, ph, match)
          /\ history' = history \cup {<<ph, match>>}
          /\ threads' = [threads EXCEPT
                            ![t].masked = Replace(threads[t].masked, match, ph),
                            ![t].work = rest,
                            ![t].at = AfterIteration(rest)]
    /\ UNCHANGED <<placeholder_counter, issued>>
    /\ ConcUnchanged

NextConc ==
    \E t \in ThreadIds :
        \/ mask_pii_enter(t)
        \/ mask_pii_lookup(t)
        \/ next_placeholder_read(t)
        \/ next_placeholder_write(t)
        \/ next_placeholder_format(t)
        \/ mask_pii_store(t)

ConcSpec == InitConc /\ [][NextConc]_vars

(* ------------------------------------------------------------------ *)
(* Vocabulary of the properties                                        *)
(* ------------------------------------------------------------------ *)
\* a search request or an answer-generation request was made in this turn
BoundaryCalled ==
    \E i \in 1..Len(calls) :
        \/ calls[i].fn = "serp"
        \/ calls[i].fn = "groq" /\ calls[i].purpose = "answer"

\* the classifier response is neither JSON nor holds a {...} block of JSON
Unparseable == raw.fmt \in {"text", "badbrace"}

\* the classifier response parses but lacks masked_text or mapping
FieldMissing ==
    /\ raw.fmt \in {"json", "wrapped"}
    /\ ~raw.obj.hasMaskedText \/ ~raw.obj.hasMapping

\* the classifier call ended with the third rate-limit failure
MaskRetriesExhausted ==
    /\ outcome = "RateLimitError"
    /\ raw = NoRaw

\* a turn ran without a configured credential
NoCredentialTurn == ~groq_client /\ mask_state # "none"

\* the position of the search request in this turn's calls, or 0
SerpIndex ==
    IF \E i \in 1..Len(calls) : calls[i].fn = "serp"
    THEN CHOOSE i \in 1..Len(calls) : calls[i].fn = "serp"
    ELSE 0

\* the requests and sleeps of the classifier call and of the answer call
MaskSegment ==
    IF SerpIndex = 0 THEN calls ELSE SubSeq(calls, 1, SerpIndex - 1)

AnswerSegment ==
    IF SerpIndex = 0 THEN <<>> ELSE SubSeq(calls, SerpIndex + 1, Len(calls))

\* one call_llm: request, sleep 1, request, sleep 2, request - cut anywhere
\* after a request
RetryShape(seg) ==
    \/ seg = <<>>
    \/ /\ Len(seg) \in {1, 3, 5}
       /\ \A i \in 1..Len(seg) :
            IF i % 2 = 1 THEN seg[i].fn = "groq"
            ELSE seg[i].fn = "sleep" /\ seg[i].secs = (IF i = 2 THEN 1 ELSE 2)
       /\ \A i, j \in 1..Len(seg) :
            (i % 2 = 1 /\ j % 2 = 1) => seg[i] = seg[j]

\* the classifier did what it was asked: its masked_text is the text it was
\* sent with each value it reports replaced by the placeholder it reports
FaithfulReply ==
    /\ raw.fmt \in {"json", "wrapped"}
    /\ raw.obj.hasMaskedText /\ raw.obj.hasMapping
    /\ raw.obj.masked_text = ApplyMapping(masked, raw.obj.mapping)

(* ------------------------------------------------------------------ *)
(* Properties                                                          *)
(* ------------------------------------------------------------------ *)
\* C1: fail-closed turn pipeline.  The search request and the answer
\* request are made only after mask_pii has returned normally; when the
\* classifier response is unparseable or lacks a required field, when the
\* retries of the classifier call are exhausted or when no credential is
\* configured, the turn makes neither request.
C1_FailClosed ==
    /\ BoundaryCalled => mask_state = "returned"
    /\ (Unparseable \/ FieldMissing \/ MaskRetriesExhausted \/ NoCredentialTurn)
          => ~BoundaryCalled

\* a turn that a {...} block of non-JSON ended, before any search
C1_Witness ==
    /\ pc = "idle"
    /\ raw.fmt = "badbrace"
    /\ outcome = "JSONDecodeError"
    /\ Len(calls) >= 1

\* C2: round trip.  When mask_pii returned and the regex passes and a
\* faithful classifier replaced every PII span, unmask_pii of the masked
\* query under the turn mapping is the original text.
C2_RoundTrip ==
    (mask_state = "returned" /\ FaithfulReply)
        => unmask_pii(masked_q, turn_map) = text

\* C3: idempotent reuse.  Every literal that a pattern matched is replaced
\* by its placeholder (the placeholder stands in the working text); a
\* literal the session already knew keeps the placeholder it had, and no
\* counter is advanced for it.
C3_IdempotentReuse ==
    \A i \in 1..Len(used) :
        /\ Contains(masked, used[i].ph)
        /\ FirstKeyOf(pre.mapping, used[i].lit).found =>
              /\ used[i].ph = FirstKeyOf(pre.mapping, used[i].lit).key
              /\ ~used[i].fresh

\* C4: placeholder uniqueness.  Over the whole session no placeholder is
\* associated with two distinct values.
C4_PlaceholderUnique ==
    \A a, b \in history : a[1] = b[1] => a[2] = b[2]

\* C5: turn mapping completeness.  The turn mapping returned by mask_pii
\* holds every session entry whose placeholder occurs in the masked query.
C5_TurnMapComplete ==
    mask_state = "returned" =>
        \A i \in 1..Len(global_mapping) :
            Contains(masked_q, global_mapping[i].ph)
                => <<global_mapping[i].ph, global_mapping[i].orig>> \in Items(turn_map)

\* C6: monotone session mapping.  Every entry of the session mapping is
\* still there, with the same value, after every step.
C6_MonotoneMapping ==
    [][\A i \in 1..Len(global_mapping) :
          <<global_mapping[i].ph, global_mapping[i].orig>> \in Items(global_mapping')]_vars

\* C7: monotonic counters.  No counter decreases; a step raises the counter
\* of a kind by exactly the number of _next_placeholder calls it made for
\* that kind; no number is issued twice for one kind.
C7_MonotonicCounters ==
    [][/\ Len(issued') >= Len(issued)
       /\ SubSeq(issued', 1, Len(issued)) = issued
       /\ \A k \in Kinds :
            /\ placeholder_counter'[k] >= placeholder_counter[k]
            /\ placeholder_counter'[k] - placeholder_counter[k]
                 = Cardinality({i \in (Len(issued) + 1)..Len(issued') :
                                  issued'[i].kind = k})
       /\ \A i, j \in 1..Len(issued') :
            (i # j /\ issued'[i].kind = issued'[j].kind)
                => issued'[i].n # issued'[j].n]_vars

\* two numbers of one kind were issued
C7_Witness ==
    /\ placeholder_counter["ID"] = 2
    /\ Len(issued) >= 2

\* C8: retry policy.  A call_llm makes at most 3 requests, sleeps 1 before
\* the second and 2 before the third; a reply ends it (what follows the
\* last classifier request is the search request); RateLimitError leaves it
\* only after the third request.
C8_RetryPolicy ==
    /\ RetryShape(MaskSegment)
    /\ RetryShape(AnswerSegment)
    /\ outcome = "RateLimitError" =>
          Len(IF AnswerSegment # <<>> THEN AnswerSegment ELSE MaskSegment) = 5
    /\ pc \in {"mask_llm", "answer_llm"} =>
          /\ Len(calls) >= 1
          /\ calls[Len(calls)].fn = "groq"
          /\ attempt = (Len(IF pc = "mask_llm" THEN MaskSegment ELSE AnswerSegment) - 1) \div 2

\* the classifier call gave up after three rate-limit failures
C8_Witness ==
    /\ outcome = "RateLimitError"
    /\ Len(calls) = 5
    /\ calls[2].secs = 1
    /\ calls[4].secs = 2

\* C9 as claimed: with no pattern match and an empty classifier mapping,
\* mask_pii returns the input text and an empty turn mapping and leaves the
\* session mapping and the counters as they were.
C9_NoOpAsClaimed ==
    (/\ mask_state = "returned"
     /\ used = <<>>
     /\ raw.obj.mapping = <<>>)
        => /\ masked_q = text
           /\ turn_map = <<>>
           /\ global_mapping = pre.mapping
           /\ placeholder_counter = pre.counter

\* C9: no-PII no-op.  With no pattern match and a classifier reply whose
\* mapping is empty and whose masked_text is the text it was sent, mask_pii
\* returns the input text and an empty turn mapping and leaves the session
\* mapping and the counters as they were.
C9_NoOp ==
    (/\ mask_state = "returned"
     /\ used = <<>>
     /\ raw.obj.mapping = <<>>
     /\ raw.obj.masked_text = calls[1].text)
        => /\ masked_q = text
           /\ turn_map = <<>>
           /\ global_mapping = pre.mapping
           /\ placeholder_counter = pre.counter

\* a turn without PII in a session that already holds entries
C9_Witness ==
    /\ mask_state = "returned"
    /\ used = <<>>
    /\ raw.obj.mapping = <<>>
    /\ raw.obj.masked_text = calls[1].text
    /\ masked_q = TxtChat
    /\ global_mapping # <<>>

MappingRead(rawv) == rawv.fmt \in {"json", "wrapped"} /\ rawv.obj.hasMapping

\* the (placeholder, literal) stores of this turn's regex passes
UsedItems == {<<used[i].ph, used[i].lit>> : i \in 1..Len(used)}

\* the literal that the regex passes stored last under placeholder k
LastUsedLit(k) ==
    LET i == CHOOSE j \in 1..Len(used) :
                /\ used[j].ph = k
                /\ \A m \in (j + 1)..Len(used) : used[m].ph # k
    IN used[i].lit

\* the numbers of the counter of kind k allocated by this turn
FreshCount(k) == Cardinality({i \in 1..Len(used) : used[i].kind = k /\ used[i].fresh})

\* the user's text with the email and phone matches of this turn cut out
RECURSIVE CutConsumed(_, _)
CutConsumed(t, uses) ==
    IF uses = <<>> THEN t
    ELSE CutConsumed(IF Head(uses).kind \in {"EMAIL", "PHONE"}
                     THEN Replace(t, Head(uses).lit, <<"<", ">">>)
                     ELSE t,
                     Tail(uses))

\* the digit runs that no email or phone match consumed
FreeIdLiterals ==
    LET m == FindAll("ID", CutConsumed(text, used))
    IN {m[i] : i \in 1..Len(m)}

\* masking, search and answer generation of the turn all succeeded
TurnSucceeded ==
    /\ pc = "idle"
    /\ mask_state = "returned"
    /\ AnswerSegment # <<>>
    /\ outcome \notin {"RateLimitError", "APIError", "HTTPError"}

SerpCount == Cardinality({i \in 1..Len(calls) : calls[i].fn = "serp"})

UpperLetters == {"A", "B", "C", "D", "E", "F", "G", "H", "I", "J", "K", "L", "M",
                 "N", "O", "P", "Q", "R", "S", "T", "U", "V", "W", "X", "Y", "Z"}

\* the exclusive end of a token <KIND_N> that starts at i, or 0
TokenEnd(s, i) ==
    LET a == RunEnd(s, UpperLetters, i + 1)
        b == RunEnd(s, Digits, a + 1)
    IN IF /\ i <= Len(s) /\ s[i] = "<"
          /\ a > i + 1
          /\ a <= Len(s) /\ s[a] = "_"
          /\ b > a + 1
          /\ b <= Len(s) /\ s[b] = ">"
       THEN b + 1 ELSE 0

\* s contains a token <KIND_N>
HasToken(s) == \E i \in 1..Len(s) : TokenEnd(s, i) # 0

\* every angle bracket of s belongs to a token <KIND_N>
BracketsInTokens(s) ==
    \A i \in 1..Len(s) :
        /\ s[i] = "<" => TokenEnd(s, i) # 0
        /\ s[i] = ">" => \E j \in 1..i : TokenEnd(s, j) = i + 1

NoBrackets(s) == \A i \in 1..Len(s) : s[i] \notin {"<", ">"}

\* the entries of m in every order
Reorderings(m) ==
    {[i \in 1..Len(m) |-> m[f[i]]] :
        f \in {g \in [1..Len(m) -> 1..Len(m)] :
                  \A i, j \in 1..Len(m) : i # j => g[i] # g[j]}}

\* one pass over s that puts the value of m at every place where a key of
\* m starts
RECURSIVE SubstituteFrom(_, _, _)
SubstituteFrom(s, m, i) ==
    IF i > Len(s) THEN <<>>
    ELSE IF \E k \in 1..Len(m) : StartsAt(s, m[k].ph, i)
         THEN LET k == CHOOSE x \in 1..Len(m) : StartsAt(s, m[x].ph, i)
              IN m[k].orig \o SubstituteFrom(s, m, i + Len(m[k].ph))
         ELSE <<s[i]>> \o SubstituteFrom(s, m, i + 1)

\* what the claim says of unmask_pii: every order gives the same text, in
\* which every placeholder of the mapping is replaced and the rest is kept
UnmaskIsSubstitution ==
    /\ \A r \in Reorderings(turn_map) : unmask_pii(masked_ans, r) = final
    /\ final = SubstituteFrom(masked_ans, turn_map, 1)

(* ------------------------------------------------------------------ *)
(* Properties C11-C20                                                  *)
(* ------------------------------------------------------------------ *)
\* C11: first-writer-wins merge.  The step that merges the classifier's
\* mapping leaves every entry of the session mapping as it was, inserts
\* the classifier's value only under placeholders that were absent, and the
\* turn mapping reports the session mapping's value for each placeholder.
C11_FirstWriterWins ==
    [][(pc = "mask_llm" /\ MappingRead(raw')) =>
          /\ SubSeq(global_mapping', 1, Len(global_mapping)) = global_mapping
          /\ DictKeys(global_mapping')
                = DictKeys(global_mapping) \cup DictKeys(raw'.obj.mapping)
          /\ \A i \in 1..Len(raw'.obj.mapping) :
                LET it == raw'.obj.mapping[i]
                IN DictGet(global_mapping', it.ph)
                      = IF DictHas(global_mapping, it.ph)
                        THEN DictGet(global_mapping, it.ph)
                        ELSE it.orig
          /\ mask_state' = "returned" =>
                /\ Len(turn_map') = Len(raw'.obj.mapping)
                /\ \A i \in 1..Len(turn_map') :
                      /\ turn_map'[i].ph = raw'.obj.mapping[i].ph
                      /\ turn_map'[i].orig = DictGet(global_mapping', turn_map'[i].ph)]_vars

\* the classifier reported another value for a placeholder of the session
C11_Witness ==
    /\ mask_state = "returned"
    /\ \E i \in 1..Len(raw.obj.mapping) :
          /\ <<raw.obj.mapping[i].ph, raw.obj.mapping[i].orig>> \notin Items(global_mapping)
          /\ turn_map[i].orig # raw.obj.mapping[i].orig

\* C12: ID detection excludes consumed digits.  The regex passes allocate
\* an ID placeholder only for a run of 4 or more digits that is not part of
\* an email or phone match of the same text.
C12_IdExcludesConsumed ==
    \A i \in 1..Len(used) :
        (used[i].kind = "ID" /\ used[i].fresh) => used[i].lit \in FreeIdLiterals

\* C13: state after retry exhaustion.  When the classifier call ends with
\* the third rate-limit failure, the session mapping is the mapping of
\* before the turn plus the stores of this turn's regex passes, the
\* counters have advanced by exactly this turn's allocations, and nothing
\* else was added.
C13_StateAfterExhaustion ==
    MaskRetriesExhausted =>
        /\ DictKeys(global_mapping)
              = DictKeys(pre.mapping) \cup {used[i].ph : i \in 1..Len(used)}
        /\ \A k \in DictKeys(global_mapping) :
              DictGet(global_mapping, k)
                 = IF \E i \in 1..Len(used) : used[i].ph = k
                   THEN LastUsedLit(k)
                   ELSE DictGet(pre.mapping, k)
        /\ \A k \in Kinds :
              placeholder_counter[k] = pre.counter[k] + FreshCount(k)

\* retries were exhausted in a turn whose regex passes added an entry
C13_Witness ==
    /\ MaskRetriesExhausted
    /\ used # <<>>
    /\ Len(global_mapping) > Len(pre.mapping)

\* C14: field validation before merge.  After a classifier response that
\* lacks masked_text or mapping, masking has failed and the session mapping
\* holds no entry taken from that response.
C14_ValidateBeforeMerge ==
    FieldMissing =>
        /\ mask_state = "failed"
        /\ \A i \in 1..Len(raw.obj.mapping) :
              <<raw.obj.mapping[i].ph, raw.obj.mapping[i].orig>> \in Items(global_mapping)
                 => <<raw.obj.mapping[i].ph, raw.obj.mapping[i].orig>>
                        \in Items(pre.mapping) \cup UsedItems

\* C15: a successful turn is recorded.  When masking, search and answer
\* generation succeeded, the turn ends with a most-recent-turn record that
\* holds the masked query, the turn mapping and the unmasked answer.
C15_TurnRecorded ==
    TurnSucceeded =>
        /\ last_turn # None
        /\ last_turn.masked_query = masked_q
        /\ last_turn.turn_map = turn_map
        /\ last_turn.final_answer = unmask_pii(masked_ans, turn_map)

\* C16: credential-missing short circuit.  Without a credential the turn
\* makes no request to the provider and no sleep, the classifier response
\* is the error string, and masking does not return.
C16_CredentialShortCircuit ==
    NoCredentialTurn =>
        /\ calls = <<>>
        /\ raw = CredentialError
        /\ mask_state = "failed"
        /\ pc = "idle"

\* a turn with PII ran without a credential
C16_Witness ==
    /\ ~groq_client
    /\ mask_state = "failed"
    /\ outcome = "stop"
    /\ used # <<>>

\* C17: search is not retried.  A turn makes at most one search request;
\* when it fails the turn is over, no answer request was made, no turn
\* record is stored and the entries of this turn's masking stay in the
\* session mapping.
C17_SearchNotRetried ==
    /\ SerpCount <= 1
    /\ outcome = "HTTPError" =>
          /\ pc = "idle"
          /\ SerpCount = 1
          /\ AnswerSegment = <<>>
          /\ last_turn = None
          /\ \A i \in 1..Len(used) : DictHas(global_mapping, used[i].ph)
          /\ \A i \in 1..Len(raw.obj.mapping) :
                DictHas(global_mapping, raw.obj.mapping[i].ph)

\* the search failed in a turn whose masking added entries
C17_Witness ==
    /\ outcome = "HTTPError"
    /\ used # <<>>
    /\ raw.obj.mapping # <<>>
    /\ Len(global_mapping) >= 2

\* C18 as claimed: for a mapping with keys <KIND_N> and values that hold
\* no placeholder token, unmask_pii gives the same text in every order of
\* the entries, replaces every occurrence of every placeholder and keeps
\* the rest of the text.
C18_OrderIndependentAsClaimed ==
    (/\ pc = "unmasked"
     /\ \A k \in 1..Len(turn_map) : ~HasToken(turn_map[k].orig))
        => UnmaskIsSubstitution

\* C18: unmask order independence.  For a text whose angle brackets all
\* belong to placeholder tokens and a mapping with keys <KIND_N> and values
\* without angle brackets, unmask_pii gives the same text in every order of
\* the entries, replaces every occurrence of every placeholder and keeps
\* the rest of the text.
C18_OrderIndependent ==
    (/\ pc = "unmasked"
     /\ BracketsInTokens(masked_ans)
     /\ \A k \in 1..Len(turn_map) : NoBrackets(turn_map[k].orig))
        => UnmaskIsSubstitution

\* two placeholders of the mapping stood in the text and were replaced
C18_Witness ==
    /\ pc = "unmasked"
    /\ BracketsInTokens(masked_ans)
    /\ Len(turn_map) = 2
    /\ \A k \in 1..2 : Contains(masked_ans, turn_map[k].ph)
    /\ NoBrackets(final)
    /\ final # <<>>

\* C20: counter/mapping consistency.  After every step, each placeholder
\* <K_n> with 1 <= n <= counter[K] is a key of the session mapping and the
\* NAME counter is 0; the step that merges a classifier response leaves the
\* counters as they were.
C20_CounterMappingConsistent ==
    [][/\ \A k \in {"EMAIL", "PHONE", "ID"} :
            \A n \in 1..placeholder_counter'[k] :
                DictHas(global_mapping', FormatPlaceholder(k, n))
       /\ placeholder_counter'["NAME"] = 0
       /\ pc = "mask_llm" => placeholder_counter' = placeholder_counter]_vars

\* the session holds allocated IDs and a NAME placeholder of the classifier
C20_Witness ==
    /\ placeholder_counter["ID"] = 2
    /\ placeholder_counter["NAME"] = 0
    /\ DictHas(global_mapping, FormatPlaceholder("NAME", 1))

\* C19: unserialized concurrent turns.  When the regex passes of two turns
\* of one session interleave at the counter's load and store and at the
\* mapping's lookup and insert, no placeholder is stored for two values and
\* no value is stored under two placeholders.
C19_EffectivelySerialized ==
    \A a \in history : \A b \in history :
        /\ a[1] = b[1] => a[2] = b[2]
        /\ a[2] = b[2] => a[1] = b[1]

====
